---- MODULE Spec2Model ----
(***************************************************************************)
(* Discrete-event model of the queueing station of main.py: job sources,   *)
(* a bounded buffer with evict-the-head overflow, a pool of devices, the   *)
(* statistics and the event loop of EventHolder, together with the device  *)
(* view (DevicesGui), the only view that keeps state and can raise.        *)
(*                                                                         *)
(* Simulated time is an integer number of ticks.  The random samples       *)
(* (arrival intervals, service durations) are drawn from small sets.       *)
(* An exception that escapes step() ends the run: `error' records it and   *)
(* the state keeps every assignment made before the raise.                 *)
(***************************************************************************)
EXTENDS Integers, Sequences, FiniteSets, TLC

\* ---------------------------------------------------------------- bounds
MaxTime == 3        \* largest time horizon (params.time)
MaxDevices == 2     \* largest number of devices (params.nDevices)
MaxClients == 2     \* largest number of sources (params.nClients)
MaxBuffer == 2      \* largest buffer capacity (params.bufferSize)
MaxDuration == 3    \* largest service duration sample
MaxCalls == 4       \* longest sequence of direct buffer calls (BufSpec)
MaxIdleSteps == 2   \* most step() calls made on an empty event queue
MaxFixedService == 10  \* largest service time of the fixed-service runs

\* ------------------------------------------------------------- constants
ORDER_CREATED == 0
DEVICE_FINISHED == 1

\* Samples of -1/lambda * log(uniform(0.3, 0.6)): the interval lies in
\* [0.51/lambda, 1.21/lambda]; with a tick of 0.55/lambda these are 1 and 2.
Intervals == {1, 2}

\* Device.order_ = None
NoOrder == [clientId |-> -1, orderId |-> -1, creationTime |-> -1]

NoEvent == [type |-> -1, time |-> -1, order |-> NoOrder]

VARIABLES
    params_,            \* EventHolder.params_: nDevices, nClients, time, bufferSize
                        \* and the devices' minDeviceTime, maxDeviceTime
    clientNextOrderId,  \* Order.clientNextOrderId (dict: clientId -> next id)
    events_,            \* EventHolder.events_ (set of pending events)
    queue_,             \* Buffer.queue_
    devices_,           \* DeviceHolder.devices_: id -> [order_, finishTime_]
    guiDevices_,        \* DevicesGui.devices_: index -> [isFree_, order_]
    stats_,             \* Statistics fields
    error,              \* the exception that ended the run, or "none"
    lastEvent,          \* the event extracted by the last step()
    issued,             \* history: the orders makeOrder returned, in call order
    idleSteps           \* history: number of step() calls on an empty queue

vars == <<params_, clientNextOrderId, events_, queue_, devices_, guiDevices_,
          stats_, error, lastEvent, issued, idleSteps>>

\* Samples of uniform(minTime_, maxTime_) in Device.processOrder
Durations == params_.minDeviceTime..params_.maxDeviceTime

\* ------------------------------------------------------------- Order
\* A makeOrder that starts a new client's counter at 0 instead of 1.
makeOrder_Restart(dict, clientId, creationTime) ==
    IF clientId \in DOMAIN dict
    THEN [order |-> [clientId |-> clientId, orderId |-> dict[clientId],
                     creationTime |-> creationTime],
          dict |-> [dict EXCEPT ![clientId] = @ + 1]]
    ELSE [order |-> [clientId |-> clientId, orderId |-> 0,
                     creationTime |-> creationTime],
          dict |-> dict @@ (clientId :> 0)]

\* Order.makeOrder: the new order and the updated counter dict.
makeOrder(dict, clientId, creationTime) ==
    IF clientId \in DOMAIN dict
    THEN [order |-> [clientId |-> clientId, orderId |-> dict[clientId],
                     creationTime |-> creationTime],
          dict |-> [dict EXCEPT ![clientId] = @ + 1]]
    ELSE [order |-> [clientId |-> clientId, orderId |-> 0,
                     creationTime |-> creationTime],
          dict |-> dict @@ (clientId :> 1)]

Event(type, time, order) == [type |-> type, time |-> time, order |-> order]

\* ------------------------------------------------------------- Statistics
\* Statistics.__init__.  counted_ and served_ are history fields, not fields
\* of the class: the orders handed to addAvgTime, in the order of the calls,
\* and the device occupancies [order, start, finish] that were accrued.
StatisticsInit(nDevices) ==
    [nSuccess_ |-> 0, nRejected_ |-> 0, orderTimesInSystem_ |-> <<>>,
     devicesTime_ |-> 0, nDevices_ |-> nDevices, lastFinishedOrderTime_ |-> 0,
     counted_ |-> <<>>, served_ |-> {}]

addAvgTime(st, order, finishTime) ==
    [st EXCEPT !.orderTimesInSystem_ = Append(@, finishTime - order.creationTime),
               !.counted_ = Append(@, order)]

addSuccessOrder(st, order, finishTime) ==
    addAvgTime([st EXCEPT !.nSuccess_ = @ + 1,
                          !.lastFinishedOrderTime_ = finishTime],
               order, finishTime)

addRejected(st, order, finishTime) ==
    addAvgTime([st EXCEPT !.nRejected_ = @ + 1,
                          !.lastFinishedOrderTime_ = finishTime],
               order, finishTime)

addDeviceProcessingTime(st, startTime, finishTime) ==
    [st EXCEPT !.devicesTime_ = @ + (finishTime - startTime)]

\* Statistics.getDeviceLoad divides devicesTime_ by this product unless
\* lastFinishedOrderTime_ is 0 (then the load is 0).
DeviceLoadDivisor(st) == st.lastFinishedOrderTime_ * st.nDevices_

\* MainWindow.updateStatistics: the three metric queries; only getDeviceLoad
\* can raise (a division by zero when there are no devices).
updateStatistics(s) ==
    IF s.stats_.lastFinishedOrderTime_ # 0 /\ DeviceLoadDivisor(s.stats_) = 0
    THEN [s EXCEPT !.error = "ZeroDivisionError: division by zero"]
    ELSE s

\* ------------------------------------------------------------- Buffer
\* The operations work on a record s of the simulation's objects:
\* events_, queue_, bufferSize_, devices_, guiDevices_, stats_, error.
Raise(s, what) == [s EXCEPT !.error = what]

\* addOrder with orderRejected left unconnected: the evicted order is not
\* reported to the statistics.
addOrder_SilentEvict(s, order, time) ==
    IF Len(s.queue_) = s.bufferSize_ /\ s.queue_ # <<>>
    THEN [s EXCEPT !.queue_ = Append(Tail(@), order)]
    ELSE [s EXCEPT !.queue_ = Append(@, order)]

\* addOrder with the capacity test off by one (> for ==).
addOrder_Grow(s, order, time) ==
    IF Len(s.queue_) > s.bufferSize_
    THEN LET orderToReject == Head(s.queue_) IN
         [s EXCEPT !.queue_ = Append(Tail(@), order),
                   !.stats_ = addRejected(@, orderToReject, time)]
    ELSE [s EXCEPT !.queue_ = Append(@, order)]

\* addOrder with the conventional policy: a full buffer rejects the new order.
addOrder_RejectNewest(s, order, time) ==
    IF Len(s.queue_) = s.bufferSize_
    THEN [s EXCEPT !.stats_ = addRejected(@, order, time)]
    ELSE [s EXCEPT !.queue_ = Append(@, order)]

\* Buffer.addOrder; orderRejected is connected to Statistics.addRejected.
addOrder(s, order, time) ==
    IF Len(s.queue_) = s.bufferSize_
    THEN IF s.queue_ = <<>>
         THEN Raise(s, "IndexError: pop from empty list")
         ELSE LET orderToReject == Head(s.queue_) IN
              [s EXCEPT !.queue_ = Append(Tail(@), order),
                        !.stats_ = addRejected(@, orderToReject, time)]
    ELSE [s EXCEPT !.queue_ = Append(@, order)]

\* popOrder that reports the head but leaves it in the queue.
popOrder_Keep(s, time) ==
    IF s.queue_ # <<>>
    THEN s
    ELSE Raise(s, "IndexError: Pop from an empty queue")

\* A popOrder that removes the newest order instead of the oldest.
popOrder_Last(s, time) ==
    IF s.queue_ # <<>>
    THEN [s EXCEPT !.queue_ = SubSeq(@, 1, Len(@) - 1)]
    ELSE Raise(s, "IndexError: Pop from an empty queue")

\* Buffer.popOrder
popOrder(s, time) ==
    IF s.queue_ # <<>>
    THEN [s EXCEPT !.queue_ = Tail(@)]
    ELSE Raise(s, "IndexError: Pop from an empty queue")

\* Buffer.nextOrder (called only on a non-empty queue by the driver)
nextOrder(s) == Head(s.queue_)

\* Buffer.empty
empty(s) == s.queue_ = <<>>

\* A device that is free only as long as it was never assigned.
isFree_NeverAssigned(device, time) == device.order_ = NoOrder

\* A device that is free only after its finish time has passed.
isFree_Strict(device, time) ==
    device.order_ = NoOrder \/ device.finishTime_ < time

\* ------------------------------------------------------------- DeviceHolder
\* DeviceHolder.Device.isFree
isFree(device, time) == device.order_ = NoOrder \/ device.finishTime_ <= time

\* DeviceHolder.hasSpace
hasSpace(s, time) == \E id \in DOMAIN s.devices_ : isFree(s.devices_[id], time)

\* A scan that stops at the last free device instead of the first.
FirstFreeDevice_Last(s, time) ==
    CHOOSE id \in DOMAIN s.devices_ :
        /\ isFree(s.devices_[id], time)
        /\ \A other \in DOMAIN s.devices_ :
               isFree(s.devices_[other], time) => other <= id

\* The device the scan of DeviceHolder.processOrder stops at (dict order = id order)
FirstFreeDevice(s, time) ==
    CHOOSE id \in DOMAIN s.devices_ :
        /\ isFree(s.devices_[id], time)
        /\ \A other \in DOMAIN s.devices_ :
               isFree(s.devices_[other], time) => id <= other

\* DeviceHolder.processOrder with Device.processOrder; duration is the sample
\* of random.uniform.  The finish time is left in s.finishTime_.
DeviceHolderProcessOrder(s, order, time, duration) ==
    IF hasSpace(s, time)
    THEN [s EXCEPT !.devices_[FirstFreeDevice(s, time)] =
                       [order_ |-> order, finishTime_ |-> time + duration],
                   !.finishTime_ = time + duration]
    ELSE Raise(s, "RuntimeError: No free devices (DeviceHolder)")

\* ------------------------------------------------------------- DevicesGui
\* The device the scan of DevicesGui.process stops at (Device.__bool__ = isFree_)
FirstFreeGuiDevice(s) ==
    CHOOSE i \in DOMAIN s.guiDevices_ :
        /\ s.guiDevices_[i].isFree_
        /\ \A other \in DOMAIN s.guiDevices_ :
               s.guiDevices_[other].isFree_ => i <= other

\* DevicesGui.process
GuiProcess(s, order) ==
    IF \E i \in DOMAIN s.guiDevices_ : s.guiDevices_[i].isFree_
    THEN [s EXCEPT !.guiDevices_[FirstFreeGuiDevice(s)] =
                       [isFree_ |-> FALSE, order_ |-> order]]
    ELSE Raise(s, "RuntimeError: No free devices (DevicesGui)")

\* DevicesGui.Device.__eq__, with Order.__eq__ on (clientId, orderId)
GuiDeviceHolds(guiDevice, order) ==
    /\ ~guiDevice.isFree_
    /\ guiDevice.order_.clientId = order.clientId
    /\ guiDevice.order_.orderId = order.orderId

\* DevicesGui.finishProcessing
GuiFinishProcessing(s, order) ==
    IF \E i \in DOMAIN s.guiDevices_ : GuiDeviceHolds(s.guiDevices_[i], order)
    THEN LET i == CHOOSE i \in DOMAIN s.guiDevices_ :
                      /\ GuiDeviceHolds(s.guiDevices_[i], order)
                      /\ \A other \in DOMAIN s.guiDevices_ :
                             GuiDeviceHolds(s.guiDevices_[other], order) => i <= other
         IN [s EXCEPT !.guiDevices_[i].isFree_ = TRUE]
    ELSE Raise(s, "ValueError: Order not found in any device")

\* ------------------------------------------------------------- EventHolder
\* EventHolder.processOrder
processOrder(s, order, time, duration) ==
    LET s1 == DeviceHolderProcessOrder(s, order, time, duration) IN
    IF s1.error # "none" THEN s1 ELSE
    LET s2 == [s1 EXCEPT !.stats_ = addDeviceProcessingTime(@, time, s1.finishTime_),
                         !.stats_.served_ = @ \cup {[order |-> order, start |-> time,
                                                     finish |-> s1.finishTime_]}] IN
    GuiProcess(s2, order)

\* EventHolder.finishProcessing
finishProcessing(s, order, time) ==
    LET s1 == GuiFinishProcessing(s, order) IN
    IF s1.error # "none" THEN s1 ELSE
    [s1 EXCEPT !.stats_ = addSuccessOrder(@, order, time)]

\* The tail shared by both handlers: bind the order to a device and schedule
\* its DEVICE_FINISHED event (lines 531-535 and 548-552).
AssignAndSchedule(s, order, time, duration) ==
    LET s1 == processOrder(s, order, time, duration) IN
    IF s1.error # "none" THEN s1 ELSE
    [s1 EXCEPT !.events_ = @ \cup {Event(DEVICE_FINISHED, s1.finishTime_, order)}]

\* EventHolder.processOrderCreatedEvent
processOrderCreatedEvent(s, event, duration) ==
    IF hasSpace(s, event.time)
    THEN LET s1 == addOrder(s, event.order, event.time) IN
         IF s1.error # "none" THEN s1 ELSE
         LET s2 == popOrder(s1, event.time) IN
         IF s2.error # "none" THEN s2 ELSE
         AssignAndSchedule(s2, event.order, event.time, duration)
    ELSE addOrder(s, event.order, event.time)

\* EventHolder.processDeviceFinishedEvent
processDeviceFinishedEvent(s, event, duration) ==
    LET s1 == finishProcessing(s, event.order, event.time) IN
    IF s1.error # "none" THEN s1 ELSE
    IF ~empty(s1)
    THEN LET orderToProcess == nextOrder(s1)
             s2 == popOrder(s1, event.time)
         IN IF s2.error # "none" THEN s2 ELSE
            AssignAndSchedule(s2, orderToProcess, event.time, duration)
    ELSE s1

\* EventHolder.processEvent
processEvent(s, event, duration) ==
    IF event.type = ORDER_CREATED THEN processOrderCreatedEvent(s, event, duration)
    ELSE IF event.type = DEVICE_FINISHED THEN processDeviceFinishedEvent(s, event, duration)
    ELSE Raise(s, "ValueError: Unknown Event type")

\* An extraction that may return any pending event, not only an earliest.
MinEvents_Any(events) == events

\* min(self.events_) with Event.__lt__ comparing times only: any event whose
\* time is minimal can be the one returned; which one depends on the set's
\* iteration order, which follows the events' object identities.
MinEvents(events) == {e \in events : \A other \in events : e.time <= other.time}

\* A step without the check for an empty event set: min() of an empty set
\* raises ValueError.
step_NoGuard(s, event, duration) ==
    IF s.events_ = {} THEN Raise(s, "ValueError: min() arg is an empty sequence")
    ELSE processEvent([s EXCEPT !.events_ = @ \ {event}], event, duration)

\* EventHolder.step: nothing on an empty event set; otherwise the event
\* min() returned is removed and processed.
step(s, event, duration) ==
    IF s.events_ = {} THEN s
    ELSE processEvent([s EXCEPT !.events_ = @ \ {event}], event, duration)

\* MainWindow.step and one pass of the loop of MainWindow.finish: when the
\* run is finished only the status line changes; otherwise EventHolder.step
\* is followed by updateStatistics.
stepOn(s, event, duration) ==
    IF s.events_ = {} THEN s ELSE
    LET s1 == step(s, event, duration) IN
    IF s1.error # "none" THEN s1 ELSE updateStatistics(s1)

\* EventHolder.isFinished
isFinished == events_ = {}

\* ------------------------------------------------------------- construction
\* A seeding loop that advances the clock before it makes the order.
RECURSIVE SeedEvents_ClockFirst(_, _, _, _, _, _, _)
SeedEvents_ClockFirst(params, currentTime, clientId, intervals, dict, events, orders) ==
    IF currentTime < params.time
    THEN LET created == currentTime + Head(intervals)
             made == makeOrder(dict, clientId % params.nClients, created)
         IN SeedEvents_ClockFirst(params, created, clientId + 1,
                                  Tail(intervals), made.dict,
                                  events \cup {Event(ORDER_CREATED, created, made.order)},
                                  Append(orders, made.order))
    ELSE [events |-> events, dict |-> dict, orders |-> orders]

\* The seeding loop of EventHolder.__init__ (lines 471-479); intervals holds
\* the successive samples of calcEventsInterval, orders the orders made so
\* far, in the order of the makeOrder calls.
RECURSIVE SeedEvents(_, _, _, _, _, _, _)
SeedEvents(params, currentTime, clientId, intervals, dict, events, orders) ==
    IF currentTime < params.time
    THEN LET made == makeOrder(dict, clientId % params.nClients, currentTime) IN
         SeedEvents(params, currentTime + Head(intervals), clientId + 1,
                    Tail(intervals), made.dict,
                    events \cup {Event(ORDER_CREATED, currentTime, made.order)},
                    Append(orders, made.order))
    ELSE [events |-> events, dict |-> dict, orders |-> orders]

\* InputParameters.  A buffer of size 0 is left out: its first addOrder
\* raises IndexError before anything is stored.
Params == [nDevices : 0..MaxDevices, nClients : 1..MaxClients,
           time : 0..MaxTime, bufferSize : 1..MaxBuffer,
           minDeviceTime : {0}, maxDeviceTime : {MaxDuration}]

DeviceHolderInit(nDevices) ==
    [id \in 0..(nDevices - 1) |-> [order_ |-> NoOrder, finishTime_ |-> 0]]

DevicesGuiInit(nDevices) ==
    [index \in 0..(nDevices - 1) |-> [isFree_ |-> TRUE, order_ |-> NoOrder]]

\* The objects of the simulation, as the record the operations work on.
S == [events_ |-> events_, queue_ |-> queue_, bufferSize_ |-> params_.bufferSize,
      devices_ |-> devices_, guiDevices_ |-> guiDevices_, stats_ |-> stats_,
      finishTime_ |-> 0, error |-> "none"]

\* EventHolder.__init__ on params, in a process whose order counters are
\* dict and which has made the orders `orders' before.
Construct(params, dict, orders) ==
    \E intervals \in [1..params.time -> Intervals] :
        LET seeded == SeedEvents(params, 0, 0, intervals, dict, {}, orders) IN
        /\ params_ = params
        /\ clientNextOrderId = seeded.dict
        /\ events_ = seeded.events
        /\ queue_ = <<>>
        /\ devices_ = DeviceHolderInit(params.nDevices)
        /\ guiDevices_ = DevicesGuiInit(params.nDevices)
        /\ stats_ = StatisticsInit(params.nDevices)
        /\ error = "none"
        /\ lastEvent = NoEvent
        /\ issued = seeded.orders
        /\ idleSteps = 0

\* MainWindow.initParams / EventHolder.__init__
Init == \E params \in Params : Construct(params, <<>>, <<>>)

\* ------------------------------------------------------------- steps
\* The simulation's objects become those of the record s.
Becomes(s) ==
    /\ events_' = s.events_
    /\ queue_' = s.queue_
    /\ devices_' = s.devices_
    /\ guiDevices_' = s.guiDevices_
    /\ stats_' = s.stats_
    /\ error' = s.error

\* The state after MainWindow.step, when min() returned `event' and the
\* device drew `duration'.
Apply(event, duration) ==
    /\ Becomes(stepOn(S, event, duration))
    /\ lastEvent' = event
    /\ UNCHANGED <<params_, clientNextOrderId, issued, idleSteps>>

\* MainWindow.step / one pass of the loop of MainWindow.finish, on an
\* ORDER_CREATED event
StepOrderCreated ==
    /\ error = "none"
    /\ ~isFinished
    /\ \E event \in MinEvents(events_), duration \in Durations :
           /\ event.type = ORDER_CREATED
           /\ Apply(event, duration)

\* The same on a DEVICE_FINISHED event
StepDeviceFinished ==
    /\ error = "none"
    /\ ~isFinished
    /\ \E event \in MinEvents(events_), duration \in Durations :
           /\ event.type = DEVICE_FINISHED
           /\ Apply(event, duration)

\* MainWindow.step once the run is finished (lines 601-603)
StepWhenFinished ==
    /\ error = "none"
    /\ isFinished
    /\ idleSteps < MaxIdleSteps
    /\ Becomes(stepOn(S, NoEvent, 0))
    /\ idleSteps' = idleSteps + 1
    /\ UNCHANGED <<params_, clientNextOrderId, lastEvent, issued>>

Next == StepOrderCreated \/ StepDeviceFinished \/ StepWhenFinished

Spec == Init /\ [][Next]_vars

\* runToCompletion keeps calling step() while the queue is non-empty.
FairSpec == Spec /\ WF_vars(Next)

\* ------------------------------------------------------------- buffer alone
\* The buffer driven directly: any sequence of addOrder and popOrder calls,
\* with orderRejected connected to the statistics as in EventHolder.__init__.
\* A caller that gets IndexError from popOrder goes on with the next call.
NumMade == LET RECURSIVE Sum(_)
               Sum(ids) == IF ids = {} THEN 0
                           ELSE LET id == CHOOSE id \in ids : TRUE
                                IN clientNextOrderId[id] + Sum(ids \ {id})
           IN Sum(DOMAIN clientNextOrderId)

BufInit ==
    \E bufferSize \in 1..MaxBuffer :
        /\ params_ = [nDevices |-> 0, nClients |-> MaxClients, time |-> 0,
                      bufferSize |-> bufferSize,
                      minDeviceTime |-> 0, maxDeviceTime |-> MaxDuration]
        /\ clientNextOrderId = <<>>
        /\ events_ = {}
        /\ queue_ = <<>>
        /\ devices_ = DeviceHolderInit(0)
        /\ guiDevices_ = DevicesGuiInit(0)
        /\ stats_ = StatisticsInit(0)
        /\ error = "none"
        /\ lastEvent = NoEvent
        /\ issued = <<>>
        /\ idleSteps = 0

BufAddOrder ==
    /\ NumMade < MaxCalls
    /\ \E clientId \in 0..(params_.nClients - 1) :
           LET made == makeOrder(clientNextOrderId, clientId, NumMade)
               s == addOrder(S, made.order, NumMade)
           IN /\ clientNextOrderId' = made.dict
              /\ queue_' = s.queue_
              /\ stats_' = s.stats_
              /\ error' = s.error
              /\ issued' = Append(issued, made.order)
              /\ UNCHANGED <<params_, events_, devices_, guiDevices_, lastEvent,
                             idleSteps>>

BufPopOrder ==
    LET s == popOrder(S, NumMade)
    IN /\ queue_' = s.queue_
       /\ error' = s.error
       /\ UNCHANGED <<params_, clientNextOrderId, events_, devices_, guiDevices_,
                      stats_, lastEvent, issued, idleSteps>>

BufNext == BufAddOrder \/ BufPopOrder

BufSpec == BufInit /\ [][BufNext]_vars

\* ------------------------------------------------------------- event loop alone
\* EventHolder driven directly: step() is called on the EventHolder, without
\* MainWindow and its refresh of the metrics.
CoreApply(event, duration) ==
    /\ Becomes(step(S, event, duration))
    /\ lastEvent' = event
    /\ UNCHANGED <<params_, clientNextOrderId, issued, idleSteps>>

CoreStepOrderCreated ==
    /\ error = "none"
    /\ ~isFinished
    /\ \E event \in MinEvents(events_), duration \in Durations :
           /\ event.type = ORDER_CREATED
           /\ CoreApply(event, duration)

CoreStepDeviceFinished ==
    /\ error = "none"
    /\ ~isFinished
    /\ \E event \in MinEvents(events_), duration \in Durations :
           /\ event.type = DEVICE_FINISHED
           /\ CoreApply(event, duration)

\* EventHolder.step on an empty event set (line 486-487)
CoreStepWhenFinished ==
    /\ error = "none"
    /\ isFinished
    /\ idleSteps < MaxIdleSteps
    /\ Becomes(step(S, NoEvent, 0))
    /\ idleSteps' = idleSteps + 1
    /\ UNCHANGED <<params_, clientNextOrderId, lastEvent, issued>>

CoreNext == CoreStepOrderCreated \/ CoreStepDeviceFinished \/ CoreStepWhenFinished

CoreSpec == Init /\ [][CoreNext]_vars

\* ------------------------------------------------------------- one process
\* Order.clientNextOrderId is a class attribute: it lives as long as the
\* process and is shared by every simulation constructed in it.  The process
\* constructs simulations one after another and may call makeOrder directly
\* in between.
ProcessParams ==
    [nDevices : {1}, nClients : 1..MaxClients, time : 0..MaxTime,
     bufferSize : {1}, minDeviceTime : {0}, maxDeviceTime : {MaxDuration}]

ProcessInit == \E params \in ProcessParams : Construct(params, <<>>, <<>>)

\* A further EventHolder is constructed in the same process.
NewSimulation ==
    /\ Len(issued) < MaxCalls
    /\ \E params \in ProcessParams :
       \E intervals \in [1..params.time -> Intervals] :
           LET seeded == SeedEvents(params, 0, 0, intervals, clientNextOrderId,
                                    {}, issued)
           IN /\ params_' = params
              /\ clientNextOrderId' = seeded.dict
              /\ events_' = seeded.events
              /\ issued' = seeded.orders
              /\ queue_' = <<>>
              /\ devices_' = DeviceHolderInit(params.nDevices)
              /\ guiDevices_' = DevicesGuiInit(params.nDevices)
              /\ stats_' = StatisticsInit(params.nDevices)
              /\ error' = "none"
              /\ lastEvent' = NoEvent
              /\ idleSteps' = 0

\* Order.makeOrder called directly.  The creation time passed is at least 1,
\* so an order created at 0 is the first order of a seeding loop.
MakeOrderCall ==
    /\ Len(issued) < MaxCalls
    /\ \E clientId \in 0..(MaxClients - 1) :
           LET made == makeOrder(clientNextOrderId, clientId, 1 + Len(issued))
           IN /\ clientNextOrderId' = made.dict
              /\ issued' = Append(issued, made.order)
              /\ UNCHANGED <<params_, events_, queue_, devices_, guiDevices_,
                             stats_, error, lastEvent, idleSteps>>

ProcessNext == NewSimulation \/ MakeOrderCall

ProcessSpec == ProcessInit /\ [][ProcessNext]_vars

\* ------------------------------------------------------------- fixed service
\* Runs whose devices serve every order in the same time (minDeviceTime =
\* maxDeviceTime) on one device or more.
FixedServiceParams ==
    [nDevices : 1..MaxDevices, nClients : 1..MaxClients,
     time : 0..MaxTime, bufferSize : 1..MaxBuffer,
     minDeviceTime : 0..MaxFixedService, maxDeviceTime : 0..MaxFixedService]

FixedServiceInit ==
    \E params \in FixedServiceParams :
        /\ params.minDeviceTime = params.maxDeviceTime
        /\ Construct(params, <<>>, <<>>)

FixedServiceSpec == FixedServiceInit /\ [][Next]_vars

\* ------------------------------------------------------------- vocabulary
\* The orders the seeding loop (or the direct caller) has made so far.
MadeOrders ==
    UNION {{[clientId |-> c, orderId |-> i] : i \in 0..(clientNextOrderId[c] - 1)} :
              c \in DOMAIN clientNextOrderId}

\* Order.__eq__
SameOrder(a, b) == a.clientId = b.clientId /\ a.orderId = b.orderId

\* How often an order was counted by addSuccessOrder or addRejected.
TimesCounted(id) ==
    Cardinality({k \in 1..Len(stats_.counted_) : SameOrder(stats_.counted_[k], id)})

\* The run was driven to Finished: the queue is empty and no step raised.
Finished == isFinished /\ error = "none"

\* The time of the step just completed (0 before the first step).
Now == IF lastEvent = NoEvent THEN 0 ELSE lastEvent.time

\* ------------------------------------------------------------- C1
\* C1 (as written): once a run is Finished, every seeded job has been counted
\* exactly once, as completed or as rejected: nRejected_ + nSuccess_ equals
\* the number of created jobs and no job is left in the buffer.
C1_EveryJobTerminal ==
    Finished =>
        /\ stats_.nRejected_ + stats_.nSuccess_ = NumMade
        /\ queue_ = <<>>
        /\ \A id \in MadeOrders : TimesCounted(id) = 1

\* C1 (amended): the same in every configuration with at least one device.
C1_EveryJobTerminalWithDevices ==
    (params_.nDevices >= 1) => C1_EveryJobTerminal

C1_Witness ==
    /\ Finished
    /\ params_.nDevices >= 1
    /\ stats_.nRejected_ >= 1
    /\ stats_.nSuccess_ >= 2

\* ------------------------------------------------------------- C2
\* C2: whenever the load is queried between steps and lastFinishedOrderTime_
\* is positive, the load lies in [0,1]: devicesTime_ is at most
\* lastFinishedOrderTime_ * nDevices_.
C2_LoadAtMostOne ==
    (error = "none" /\ stats_.lastFinishedOrderTime_ > 0) =>
        /\ 0 <= stats_.devicesTime_
        /\ stats_.devicesTime_ <= DeviceLoadDivisor(stats_)

\* ------------------------------------------------------------- C3
\* C3: with at least one device and a buffer of size at least 1, whatever the
\* order of events that share a time, no "No free devices" error is raised.
C3_NoFreeDevicesNeverRaised ==
    (params_.nDevices >= 1 /\ params_.bufferSize >= 1) =>
        error \notin {"RuntimeError: No free devices (DeviceHolder)",
                      "RuntimeError: No free devices (DevicesGui)"}

\* ------------------------------------------------------------- C4
\* C4: over any sequence of addOrder and popOrder calls the buffer never holds
\* more orders than its size.
C4_BufferBounded == Len(queue_) <= params_.bufferSize

\* addOrder has acted on a full buffer, which is full again.
C4_Witness == Len(queue_) = params_.bufferSize /\ stats_.nRejected_ >= 1

\* ------------------------------------------------------------- C5
\* C5: addOrder on a buffer that holds exactly bufferSize_ orders removes the
\* head, keeps the other orders in their order, appends the new order at the
\* tail and counts exactly the evicted order, once, as rejected.
C5_FullAddEvictsHead ==
    [][ (Len(queue_) = params_.bufferSize /\ clientNextOrderId' # clientNextOrderId) =>
          /\ Len(queue_') = Len(queue_)
          /\ \A k \in 1..(Len(queue_) - 1) : queue_'[k] = queue_[k + 1]
          /\ \E id \in MadeOrders' \ MadeOrders : SameOrder(queue_'[Len(queue_')], id)
          /\ stats_'.nRejected_ = stats_.nRejected_ + 1
          /\ stats_'.nSuccess_ = stats_.nSuccess_
          /\ stats_'.counted_ = Append(stats_.counted_, Head(queue_)) ]_vars

\* Two evictions have happened on a buffer of two slots.
C5_Witness ==
    /\ params_.bufferSize >= 2
    /\ Len(queue_) = params_.bufferSize
    /\ Len(stats_.counted_) >= 2

\* ------------------------------------------------------------- C6
\* C6: a step that processes an ORDER_CREATED event for order j while a
\* device is free passes j through the buffer: the order popped is j, the
\* queue is the same after the step as before, j is bound to a device and a
\* DEVICE_FINISHED event for j is scheduled.
C6_ArrivalPassThrough ==
    [][ (lastEvent'.type = ORDER_CREATED /\ hasSpace(S, lastEvent'.time)) =>
          LET j == lastEvent'.order IN
          /\ Head(addOrder(S, j, lastEvent'.time).queue_) = j
          /\ queue_' = queue_
          /\ \E id \in DOMAIN devices_' : devices_'[id].order_ = j
          /\ \E e \in events_' : e.type = DEVICE_FINISHED /\ e.order = j ]_vars

\* ------------------------------------------------------------- C7
\* An order is held by a busy device: bound to it and not yet finished at the
\* time of the last step.
BusyWith(id, order) ==
    /\ devices_[id].order_ # NoOrder
    /\ SameOrder(devices_[id].order_, order)
    /\ ~isFree(devices_[id], Now)

\* C7: after every completed step no order is both in the buffer and bound to
\* a busy device, none is bound to two devices, none is twice in the buffer.
C7_OneOwner ==
    (error = "none") =>
        /\ \A k \in 1..Len(queue_) : \A id \in DOMAIN devices_ :
               ~BusyWith(id, queue_[k])
        /\ \A a, b \in DOMAIN devices_ :
               (a # b /\ devices_[a].order_ # NoOrder) =>
                   ~(BusyWith(a, devices_[a].order_) /\ BusyWith(b, devices_[a].order_))
        /\ \A k, l \in 1..Len(queue_) :
               k # l => ~SameOrder(queue_[k], queue_[l])

\* Two devices are busy with two orders while a third order waits in the
\* buffer, after an order already passed through the buffer to a device.
C7_Witness ==
    /\ error = "none"
    /\ queue_ # <<>>
    /\ params_.nDevices >= 2
    /\ \A id \in DOMAIN devices_ : BusyWith(id, devices_[id].order_)

\* ------------------------------------------------------------- C8
\* C8: the event step() extracts, and so the state after the step, is a
\* function of the simulation state and the sampled duration: any two events
\* min() may return lead to the same state.
C8_StepDeterministic ==
    (error = "none") =>
        \A e1, e2 \in MinEvents(events_) : \A duration \in Durations :
            stepOn(S, e1, duration) = stepOn(S, e2, duration)

\* ------------------------------------------------------------- C9
\* C9: no call into a view aborts a step part-way.
C9_ViewsNeverAbort ==
    error \notin {"RuntimeError: No free devices (DevicesGui)",
                  "ValueError: Order not found in any device"}

\* ------------------------------------------------------------- C10
\* C10: the loop of MainWindow.finish stops only with the event set empty.
C10_StopsWithEmptyQueue == (~ENABLED Next) => isFinished

\* ------------------------------------------------------------- C11
\* One device, a buffer of one place, two sources, one service time for
\* every order, and two orders seeded, the second before the first one's
\* service ends.  With a tick of 0.1 the run of the scenario is the one with
\* service time 10 and the second arrival at tick 1.
Scenario11 ==
    /\ params_.nDevices = 1
    /\ params_.bufferSize = 1
    /\ params_.nClients = 2
    /\ params_.minDeviceTime = params_.maxDeviceTime
    /\ Len(issued) = 2
    /\ issued[2].creationTime < params_.minDeviceTime

\* C11: in the scenario the order made at 0 goes directly to the device and
\* finishes after one service time; the second order waits in the buffer;
\* when the first completes the second is taken from the buffer and bound to
\* the device, finishing at twice the service time; the run ends with two
\* successes and no rejection.
C11_TwoOrdersOneDevice ==
    Scenario11 =>
        LET first == issued[1]
            second == issued[2]
            service == params_.minDeviceTime
            arrived(order) ==
                Event(ORDER_CREATED, order.creationTime, order) \notin events_
        IN /\ error = "none"
           /\ first.creationTime = 0
           /\ first.clientId # second.clientId
           /\ stats_.nRejected_ = 0
           /\ (arrived(first) /\ stats_.nSuccess_ = 0) =>
                  /\ devices_[0] = [order_ |-> first, finishTime_ |-> service]
                  /\ Event(DEVICE_FINISHED, service, first) \in events_
           /\ (arrived(first) /\ ~arrived(second)) => queue_ = <<>>
           /\ (arrived(second) /\ stats_.nSuccess_ = 0) => queue_ = <<second>>
           /\ stats_.nSuccess_ = 1 =>
                  /\ stats_.counted_ = <<first>>
                  /\ lastEvent = Event(DEVICE_FINISHED, service, first)
                  /\ queue_ = <<>>
                  /\ devices_[0] = [order_ |-> second, finishTime_ |-> 2 * service]
                  /\ events_ = {Event(DEVICE_FINISHED, 2 * service, second)}
           /\ isFinished =>
                  /\ stats_.nSuccess_ = 2
                  /\ stats_.counted_ = <<first, second>>
                  /\ lastEvent = Event(DEVICE_FINISHED, 2 * service, second)

\* The scenario's run has ended: service time 10 ticks, arrivals at 0 and 1.
C11_Witness ==
    /\ Scenario11
    /\ params_.minDeviceTime = 10
    /\ issued[2].creationTime = 1
    /\ isFinished
    /\ stats_.nSuccess_ = 2
    /\ stats_.nRejected_ = 0

\* ------------------------------------------------------------- C12
\* The ORDER_CREATED event of a seeded order has been processed.
Arrived(order) ==
    Event(ORDER_CREATED, order.creationTime, order) \notin events_

\* No device at all (so none is ever free), a buffer of one place, one
\* source, three orders seeded at 0, 1 and 2.
Scenario12 ==
    /\ params_.nDevices = 0
    /\ params_.bufferSize = 1
    /\ params_.nClients = 1
    /\ Len(issued) = 3
    /\ \A k \in 1..3 : issued[k].creationTime = k - 1

C13_FinishedIsTerminal ==
    [][isFinished =>
          /\ events_' = events_
          /\ queue_' = queue_
          /\ devices_' = devices_
          /\ guiDevices_' = guiDevices_
          /\ stats_' = stats_
          /\ error' = error
          /\ isFinished']_vars

\* step() was called twice after the end of a run in which an order was
\* served and another rejected.
C13_Witness ==
    /\ isFinished
    /\ error = "none"
    /\ idleSteps >= 2
    /\ stats_.nSuccess_ >= 1
    /\ stats_.nRejected_ >= 1

\* ------------------------------------------------------------- C14
\* The number of orders that have left the buffer: every order made by the
\* direct caller was inserted, in the order of issued.
NumRemoved == Len(issued) - Len(queue_)

\* C14: over every addOrder and popOrder call, the orders that have left the
\* buffer (popped or evicted) are the first NumRemoved inserted ones and the
\* buffer holds the rest in insertion order; a call removes at most one
\* order, so the orders leave in the order they entered.
C14_Fifo ==
    [][/\ queue_ = SubSeq(issued, NumRemoved + 1, Len(issued))
       /\ queue_' = SubSeq(issued', NumRemoved' + 1, Len(issued'))
       /\ NumRemoved' \in {NumRemoved, NumRemoved + 1}]_vars

\* Orders have left the buffer both by eviction and by popOrder, and an
\* order is still waiting.
C14_Witness ==
    /\ stats_.nRejected_ >= 1
    /\ NumRemoved > stats_.nRejected_
    /\ queue_ # <<>>

\* ------------------------------------------------------------- C15
\* C15: the k-th seeded order (k = 0, 1, ...) belongs to client k mod
\* nClients; the first is created at 0; creation times increase strictly
\* and stay below the horizon params.time; nothing is seeded when the
\* horizon is 0; and before the first step the event set holds exactly one
\* ORDER_CREATED event per seeded order, at its creation time.
C15_Seeding ==
    /\ \A k \in 1..Len(issued) :
           /\ issued[k].clientId = (k - 1) % params_.nClients
           /\ issued[k].creationTime < params_.time
    /\ issued # <<>> => issued[1].creationTime = 0
    /\ \A k \in 1..(Len(issued) - 1) :
           issued[k].creationTime < issued[k + 1].creationTime
    /\ params_.time = 0 => issued = <<>>
    /\ lastEvent = NoEvent =>
           events_ = {Event(ORDER_CREATED, issued[k].creationTime, issued[k]) :
                          k \in 1..Len(issued)}

\* A freshly constructed simulation with three seeded orders for two
\* clients: the round-robin has wrapped around.
C15_Witness ==
    /\ lastEvent = NoEvent
    /\ params_.nClients = 2
    /\ Len(issued) = 3
    /\ Cardinality(events_) = 3

\* ------------------------------------------------------------- C16
\* C16: over every sequence of makeOrder calls in one process, across the
\* simulations constructed in it, no two orders have the same (clientId,
\* orderId), and the k-th order made for a client has orderId k - 1: each
\* client's ids are 0, 1, 2, ... without a gap.
C16_OrderIdentity ==
    /\ \A k, l \in 1..Len(issued) : k # l => ~SameOrder(issued[k], issued[l])
    /\ \A k \in 1..Len(issued) :
           issued[k].orderId =
               Cardinality({l \in 1..(k - 1) : issued[l].clientId = issued[k].clientId})

\* Two simulations were constructed in the process (client 0 has two orders
\* created at time 0), and a client has been given three orders or more.
C16_Witness ==
    /\ \E k, l \in 1..Len(issued) :
           /\ k < l
           /\ issued[k].clientId = 0 /\ issued[k].creationTime = 0
           /\ issued[l].clientId = 0 /\ issued[l].creationTime = 0
    /\ \E k \in 1..Len(issued) : issued[k].orderId >= 2

\* ------------------------------------------------------------- C17
\* C17: every step processes a pending event whose time is minimal among
\* the pending events and not before the time of the event processed by the
\* step before, and every event the step schedules has a time greater than
\* or equal to the time of the event it processes.
C17_TimeOrder ==
    [][lastEvent' # lastEvent =>
          /\ lastEvent' \in events_
          /\ \A e \in events_ : lastEvent'.time <= e.time
          /\ lastEvent # NoEvent => lastEvent.time <= lastEvent'.time
          /\ \A e \in events_' \ events_ : e.time >= lastEvent'.time]_vars

\* A completion step took an order from the buffer and served it in no
\* time: the event it scheduled has the time of the event it processed.
C17_Witness ==
    /\ error = "none"
    /\ lastEvent.type = DEVICE_FINISHED
    /\ \E e \in events_ :
           /\ e.type = DEVICE_FINISHED
           /\ e.time = lastEvent.time
           /\ [order |-> e.order, start |-> e.time, finish |-> e.time]
                  \in stats_.served_

\* ------------------------------------------------------------- C18
\* The step being taken processes a DEVICE_FINISHED event while an order
\* waits in the buffer.
CompletionWithWaiting ==
    /\ lastEvent' # lastEvent
    /\ lastEvent'.type = DEVICE_FINISHED
    /\ queue_ # <<>>

\* The step dequeues exactly the head of the buffer and schedules exactly one
\* DEVICE_FINISHED event for it, at the time of the processed event or later.
HeadDequeuedAndScheduled ==
    /\ error' = "none"
    /\ queue_' = Tail(queue_)
    /\ \E e \in events_' \ events_ :
           /\ e.type = DEVICE_FINISHED
           /\ e.order = Head(queue_)
           /\ e.time >= lastEvent'.time
           /\ \A other \in events_' :
                  (other.type = DEVICE_FINISHED /\ SameOrder(other.order, Head(queue_)))
                      => other = e
           /\ \E id \in DOMAIN devices_ :
                  devices_' = [devices_ EXCEPT
                                  ![id] = [order_ |-> Head(queue_), finishTime_ |-> e.time]]

\* C18 as stated: on a completion of order j at time t with a non-empty
\* buffer the head is dequeued, bound to the device that held j, no other
\* device being free at t, and one DEVICE_FINISHED event is scheduled for it
\* at t or later.
C18_HeadToVacatedDevice ==
    [][CompletionWithWaiting =>
          /\ HeadDequeuedAndScheduled
          /\ \E id \in DOMAIN devices_ :
                 /\ SameOrder(devices_[id].order_, lastEvent'.order)
                 /\ devices_'[id].order_ = Head(queue_)
                 /\ \A other \in DOMAIN devices_ \ {id} :
                        ~isFree(devices_[other], lastEvent'.time)]_vars

\* C18 amended: the head is bound to the device of lowest index among those
\* whose finish time is t or earlier.
C18_HeadToFirstFreeDevice ==
    [][CompletionWithWaiting =>
          /\ HeadDequeuedAndScheduled
          /\ \E id \in DOMAIN devices_ :
                 /\ isFree(devices_[id], lastEvent'.time)
                 /\ \A other \in DOMAIN devices_ :
                        isFree(devices_[other], lastEvent'.time) => id <= other
                 /\ devices_'[id].order_ = Head(queue_)]_vars

\* Two devices finished at the same time with an order waiting: the
\* completion processed last freed the second device, the waiting order was
\* bound to the first, whose own completion event is still pending.
C18_Witness ==
    /\ error = "none"
    /\ lastEvent.type = DEVICE_FINISHED
    /\ \E e \in events_ :
           /\ e.type = DEVICE_FINISHED
           /\ e.time = lastEvent.time
           /\ \A id \in DOMAIN devices_ : ~SameOrder(devices_[id].order_, e.order)
    /\ \E sv \in stats_.served_ :
           /\ sv.start = lastEvent.time
           /\ sv.order.creationTime < sv.start
           /\ devices_[0].order_ = sv.order

\* ------------------------------------------------------------- C19
\* The sum of finish - start over a set of device occupancies.
RECURSIVE Occupancy(_)
Occupancy(occupancies) ==
    IF occupancies = {} THEN 0
    ELSE LET sv == CHOOSE sv \in occupancies : TRUE
         IN (sv.finish - sv.start) + Occupancy(occupancies \ {sv})

\* The occupancies of the orders that were counted as success or rejected.
TerminalOccupancies ==
    {sv \in stats_.served_ :
        \E k \in 1..Len(stats_.counted_) : SameOrder(stats_.counted_[k], sv.order)}

\* C19: between steps devicesTime_ is the sum of finish - start over the
\* device occupancies of the orders that are completed or rejected so far.
C19_BusyTimeOfTerminalOrders ==
    error = "none" => stats_.devicesTime_ = Occupancy(TerminalOccupancies)

\* ------------------------------------------------------------- C20
\* The number of ORDER_CREATED events processed so far.
NumArrived == Cardinality({k \in 1..Len(issued) : Arrived(issued[k])})

\* The orders in service: those with a pending DEVICE_FINISHED event.
InService == {e.order : e \in {f \in events_ : f.type = DEVICE_FINISHED}}

\* C20: after every completed step the number of ORDER_CREATED events
\* processed equals nSuccess_ + nRejected_ + the number of orders in the
\* buffer + the number of orders in service.
C20_Accounting ==
    error = "none" =>
        NumArrived = stats_.nSuccess_ + stats_.nRejected_ + Len(queue_)
                         + Cardinality(InService)

\* An order was rejected, another waits in the buffer and a third is in
\* service.
C20_Witness ==
    /\ error = "none"
    /\ stats_.nRejected_ >= 1
    /\ queue_ # <<>>
    /\ InService # {}

\* ------------------------------------------------------------- C21
\* C21: after every completed step, at the time t of the event it processed,
\* an order waits in the buffer only if no device is free at t
\* (Device.isFree: never assigned, or finishTime_ <= t).
C21_WorkConserving ==
    (error = "none" /\ lastEvent # NoEvent /\ queue_ # <<>>) =>
        \A id \in DOMAIN devices_ : ~isFree(devices_[id], Now)

\* C21 amended: while an order waits in the buffer after a completed step at
\* time t, every device has been assigned and none has a finish time before
\* t; a device whose finish time is t itself (free by Device.isFree) occurs
\* only while a DEVICE_FINISHED event at time t is still pending.
C21_NoDeviceIdleBefore ==
    (error = "none" /\ lastEvent # NoEvent /\ queue_ # <<>>) =>
        \A id \in DOMAIN devices_ :
            /\ devices_[id].order_ # NoOrder
            /\ devices_[id].finishTime_ >= Now
            /\ isFree(devices_[id], Now) =>
                   \E e \in events_ : e.type = DEVICE_FINISHED /\ e.time = Now

\* A completion step has left an order in the buffer while a device's
\* finish time is the time of the step.
C21_Witness ==
    /\ error = "none"
    /\ lastEvent.type = DEVICE_FINISHED
    /\ queue_ # <<>>
    /\ \E id \in DOMAIN devices_ :
           devices_[id].order_ # NoOrder /\ devices_[id].finishTime_ = Now

\* ------------------------------------------------------------- C22
\* The pending DEVICE_FINISHED events.
PendingCompletions == {e \in events_ : e.type = DEVICE_FINISHED}

\* Device id is bound to the order of event e and finishes at e's time.
Serves(id, e) ==
    /\ devices_[id].order_ = e.order
    /\ devices_[id].finishTime_ = e.time

\* C22: between steps there are at most nDevices pending DEVICE_FINISHED
\* events, each one concerns the order bound to a device whose finish time is
\* the event's time, and different events concern different devices.
C22_PendingMatchBusy ==
    error = "none" =>
        /\ Cardinality(PendingCompletions) <= params_.nDevices
        /\ \A e \in PendingCompletions : \E id \in DOMAIN devices_ : Serves(id, e)
        /\ \A e1, e2 \in PendingCompletions : \A id \in DOMAIN devices_ :
               (Serves(id, e1) /\ Serves(id, e2)) => e1 = e2

====
